---- MODULE Spec2Model ----
(***************************************************************************)
(* Order fulfilment and inventory ledger of the vending machine service.   *)
(*                                                                         *)
(* The persisted store (PostgreSQL, READ COMMITTED) is modelled as the     *)
(* committed tables `stock` (machine_ingredients and machine_addons) and   *)
(* `orders` (orders with their order_items / order_addons rows), plus one  *)
(* session per request holding its uncommitted writes and the row locks    *)
(* those writes take.  Every request handler is split at the awaits where  *)
(* another request can observably interleave.                              *)
(***************************************************************************)
EXTENDS Integers, Sequences, FiniteSets, TLC

VARIABLES
    stock,      \* committed qty_available(_g) per (machine, item); NoRow if absent
    orders,     \* committed orders table: sequence of order aggregates (id = index)
    pc,         \* position of each request handler
    req,        \* the request each handler is serving
    txn,        \* uncommitted writes of each handler's session
    loc,        \* handler locals (values read earlier in the request)
    res         \* response the last step sent to a caller (NoRes if it sent none)

vars == <<stock, orders, pc, req, txn, loc, res>>

----------------------------------------------------------------------------
\* Bounds of the model.

\* Largest quantity a stock row may hold in the model (guards of restock/restore).
MaxQty == 6

\* Concurrent request handlers.
Procs == {"p1", "p2"}

----------------------------------------------------------------------------
\* Rows of the store that the core only reads.

Machines == {"M1", "M2", "M3"}
MachineIds == Machines \cup {"M9"}             \* M9: no such vending_machines row
MachineStatus == [m \in Machines |-> IF m = "M1" THEN "active" ELSE IF m = "M2" THEN "maintenance" ELSE "inactive"]

Ingredients == {"I1", "I2"}
Addons == {"A1"}
Ingredient == [i \in Ingredients |->
                 IF i = "I1" THEN [min_qty_g |-> 1, max_percent_limit |-> 100]
                             ELSE [min_qty_g |-> 2, max_percent_limit |-> 55]]

Statuses == {"pending", "processing", "completed", "failed", "cancelled"}

StockKeys == Machines \X (Ingredients \cup Addons)

NoRow == -1        \* no machine_ingredients / machine_addons row for the key
NoWrite == -2      \* the session has not written the row

EmptyTxn == [stock |-> [k \in StockKeys |-> NoWrite], ostatus |-> {}, inserted |-> <<>>]
NoRes == [op |-> "none"]
NoReq == [op |-> "none"]
NoLoc == [line |-> 0]
OK == [type |-> "ok"]

----------------------------------------------------------------------------
\* The store: sessions, row locks, commit and rollback.

\* The stock tables without their CHECK constraints.
CheckQtyAvailable_dropped(v) == TRUE

\* CHECK (qty_available_g >= 0) / CHECK (qty_available >= 0) of the stock tables.
CheckQtyAvailable(v) == v >= 0

\* What session p reads for a stock row: its own write, else the committed row.
\* A SELECT that returns the committed row whatever the session has written.
SeenStock_committed(p, k) == stock[k]

SeenStock(p, k) == IF txn[p].stock[k] # NoWrite THEN txn[p].stock[k] ELSE stock[k]

\* An UPDATE that computes from the committed row without waiting for its lock.
StockLocked_never(p, k) == FALSE

\* An UPDATE of a row waits while another session holds an uncommitted write of it.
StockLocked(p, k) == \E q \in Procs \ {p} : txn[q].stock[k] # NoWrite
OrderLocked(p, oid) == \E q \in Procs \ {p} : \E w \in txn[q].ostatus : w[1] = oid

\* Committed tables after session t commits.  (CommitOrders_droplines: a
\* status UPDATE that also deletes the order's lines.)
CommitStock(st, t) == [k \in StockKeys |-> IF t.stock[k] # NoWrite THEN t.stock[k] ELSE st[k]]
CommitOrders_droplines(os, t) ==
    [i \in 1..Len(os) |->
        IF \E w \in t.ostatus : w[1] = i
        THEN [os[i] EXCEPT !.status = (CHOOSE w \in t.ostatus : w[1] = i)[2],
                           !.order_items = <<>>, !.order_addons = <<>>]
        ELSE os[i]] \o t.inserted
CommitOrders(os, t) ==
    [i \in 1..Len(os) |->
        IF \E w \in t.ostatus : w[1] = i
        THEN [os[i] EXCEPT !.status = (CHOOSE w \in t.ostatus : w[1] = i)[2]]
        ELSE os[i]] \o t.inserted

\* A rollback that leaves the rows the session had flushed.
RollbackOrders_kept(os, t) == os \o t.inserted

\* Committed tables after session t is rolled back: its writes are discarded.
RollbackStock(st, t) == st
RollbackOrders(os, t) == os

----------------------------------------------------------------------------
\* Order Validator.

InFlight == {"pending", "processing"}

\* The availability count taken over the machine's orders in every status.
check_machine_availability_any(os, m) ==
    /\ m \in Machines
    /\ MachineStatus[m] = "active"
    /\ Cardinality({i \in 1..Len(os) : os[i].machine_id = m}) = 0

\* The availability count restricted to orders in status processing.
check_machine_availability_processing(os, m) ==
    /\ m \in Machines
    /\ MachineStatus[m] = "active"
    /\ Cardinality({i \in 1..Len(os) : os[i].machine_id = m /\ os[i].status = "processing"}) = 0

check_machine_availability(os, m) ==
    /\ m \in Machines
    /\ MachineStatus[m] = "active"
    /\ Cardinality({i \in 1..Len(os) : os[i].machine_id = m /\ os[i].status \in InFlight}) = 0

\* A validator that refuses only machines in maintenance.
validate_machine_for_order_maintenance(os, m) ==
    IF m \notin Machines
    THEN [type |-> "NotFoundError", reason |-> "machine_not_found"]
    ELSE IF MachineStatus[m] = "maintenance"
    THEN [type |-> "BusinessRuleError", reason |-> "machine_not_active"]
    ELSE IF ~check_machine_availability(os, m)
    THEN [type |-> "BusinessRuleError", reason |-> "machine_processing_another_order"]
    ELSE OK

validate_machine_for_order(os, m) ==
    IF m \notin Machines
    THEN [type |-> "NotFoundError", reason |-> "machine_not_found"]
    ELSE IF MachineStatus[m] # "active"
    THEN [type |-> "BusinessRuleError", reason |-> "machine_not_active"]
    ELSE IF ~check_machine_availability(os, m)
    THEN [type |-> "BusinessRuleError", reason |-> "machine_processing_another_order"]
    ELSE OK

\* OrderService._validate_ingredients_exist / _validate_addons_exist
svc_validate_items_exist(r) ==
    IF \E n \in 1..Len(r.ingredients) : r.ingredients[n].ingredient_id \notin Ingredients
    THEN [type |-> "ValidationError", reason |-> "ingredient_not_found"]
    ELSE IF \E n \in 1..Len(r.addons) : r.addons[n].addon_id \notin Addons
    THEN [type |-> "ValidationError", reason |-> "addon_not_found"]
    ELSE OK

\* OrderDAO._validate_ingredients_exist / _validate_addons_exist
dao_validate_items_exist(r) ==
    IF \E n \in 1..Len(r.ingredients) : r.ingredients[n].ingredient_id \notin Ingredients
    THEN [type |-> "NotFoundError", reason |-> "ingredient_not_found"]
    ELSE IF \E n \in 1..Len(r.addons) : r.addons[n].addon_id \notin Addons
    THEN [type |-> "NotFoundError", reason |-> "addon_not_found"]
    ELSE OK

RECURSIVE SumGrams(_)
SumGrams(s) == IF s = <<>> THEN 0 ELSE Head(s).grams_used + SumGrams(Tail(s))

\* percentage = (grams_used / total_grams) * 100 is computed in doubles.  When
\* the exact percentage is not a whole number it differs from every whole limit
\* by at least 1 / total_grams, far more than the rounding error, and the double
\* compares as the exact value does.  When it is a whole number the double can
\* land one unit in the last place above it: FloatPercentAbove lists the pairs
\* (grams_used, total_grams), total_grams up to 25, where that happens
\* (11 / 20 * 100 is 55.00000000000001, 7 / 25 * 100 is 28.000000000000004,
\* 14 / 25 * 100 is 56.00000000000001).
FloatPercentAbove == {<<11, 20>>, <<7, 25>>, <<14, 25>>}

\* percentage > max_percent_limit
PercentExceeds(g, total, limit) ==
    \/ g * 100 > limit * total
    \/ g * 100 = limit * total /\ <<g, total>> \in FloatPercentAbove

validate_ingredient_constraints(r) ==
    LET total_grams == SumGrams(r.ingredients)
        known == {n \in 1..Len(r.ingredients) : r.ingredients[n].ingredient_id \in Ingredients}
        below(n) == r.ingredients[n].grams_used < Ingredient[r.ingredients[n].ingredient_id].min_qty_g
        above(n) == /\ total_grams > 0
                    /\ PercentExceeds(r.ingredients[n].grams_used, total_grams,
                                      Ingredient[r.ingredients[n].ingredient_id].max_percent_limit)
    IN  IF \E n \in known : below(n) \/ above(n)
        THEN [type |-> "ValidationError", reason |-> "ingredient_constraint"]
        ELSE OK

validate_order_request(os, r) ==
    LET e1 == validate_machine_for_order(os, r.machine_id)
        e2 == svc_validate_items_exist(r)
        e3 == validate_ingredient_constraints(r)
    IN  IF e1 # OK THEN e1 ELSE IF e2 # OK THEN e2 ELSE e3

----------------------------------------------------------------------------
\* Requests the callers send.

Item(i, g) == [ingredient_id |-> i, grams_used |-> g, qty_ml |-> 0]
AddonLine(a, q) == [addon_id |-> a, qty |-> q]
CreateReq(m, st, sid, ings, ads) ==
    [op |-> "create", machine_id |-> m, status |-> st, session_id |-> sid,
     ingredients |-> ings, addons |-> ads]

CreateRequests ==
    { CreateReq("M1", "processing", "smoothie-1", <<Item("I1", 1)>>, <<AddonLine("A1", 1)>>),
      CreateReq("M1", "pending", "salad-8", <<Item("I1", 5), Item("I2", 5)>>, <<AddonLine("A1", 3)>>),
      CreateReq("M1", "cancelled", "smoothie-9", <<Item("I1", 1)>>, <<>>),
      CreateReq("M1", "pending", "salad-1", <<Item("I1", 2), Item("I2", 2)>>, <<>>),
      CreateReq("M1", "processing", "smoothie-2", <<Item("I1", 6)>>, <<>>),
      CreateReq("M1", "processing", "smoothie-3", <<Item("I1", 3), Item("I2", 1)>>, <<>>),
      CreateReq("M1", "processing", "smoothie-4", <<Item("I9", 1)>>, <<>>),
      CreateReq("M2", "processing", "smoothie-5", <<Item("I1", 1)>>, <<>>),
      CreateReq("M3", "processing", "smoothie-7", <<Item("I1", 1)>>, <<>>),
      CreateReq("M9", "processing", "smoothie-6", <<Item("I1", 1)>>, <<>>) }

UpdateOrderIds == {1, 2, 9}                    \* 9: no such order

----------------------------------------------------------------------------
\* The store when the service starts: stock rows and the orders already on file.

InitStock ==
    [k \in StockKeys |->
        IF k = <<"M1", "I1">> THEN 5
        ELSE IF k = <<"M1", "I2">> THEN 4
        ELSE IF k = <<"M1", "A1">> THEN 2
        ELSE IF k = <<"M2", "I1">> THEN 3
        ELSE NoRow]

StoredOrder(m, st, sid, ings, ads) ==
    [machine_id |-> m, status |-> st, session_id |-> sid, order_items |-> ings, order_addons |-> ads]

InitOrders ==
    << StoredOrder("M1", "pending", "smoothie-a", <<Item("I1", 1)>>, <<AddonLine("A1", 1)>>),
       StoredOrder("M1", "completed", "salad-b", <<Item("I2", 2)>>, <<>>) >>

Init ==
    /\ stock = InitStock
    /\ orders = InitOrders
    /\ pc = [p \in Procs |-> "idle"]
    /\ req = [p \in Procs |-> NoReq]
    /\ txn = [p \in Procs |-> EmptyTxn]
    /\ loc = [p \in Procs |-> NoLoc]
    /\ res = NoRes

----------------------------------------------------------------------------
\* Ending a request.

Failure(operation, stage, caller_error, cause) ==
    [op |-> operation, ok |-> FALSE, stage |-> stage, error |-> caller_error, cause |-> cause]
Success(operation) == [op |-> operation, ok |-> TRUE]

\* The HTTP status the controller answers with.  create_order: 201, and
\* "except Exception" turns every failure of the service into 422.
\* update_order_status: 200, and "except Exception" turns every failure of
\* the service into 500 (404 is kept for a service that returns None, which
\* the DAO never does: it raises).
http_status(result) ==
    IF result.op = "create" THEN (IF result.ok THEN 201 ELSE 422)
    ELSE IF result.op = "update" THEN (IF result.ok THEN 200 ELSE 500)
    ELSE 0

\* The request of p ends with an exception while its session holds the writes
\* t: get_async_transaction / the controller roll the session back and the
\* error goes to the caller.
Abort(p, t, result) ==
    /\ stock' = RollbackStock(stock, t)
    /\ orders' = RollbackOrders(orders, t)
    /\ txn' = [txn EXCEPT ![p] = EmptyTxn]
    /\ pc' = [pc EXCEPT ![p] = "idle"]
    /\ loc' = [loc EXCEPT ![p] = NoLoc]
    /\ req' = [req EXCEPT ![p] = NoReq]
    /\ res' = result

\* The request of p ends normally: the session commits.
Finish(p, result) ==
    /\ stock' = CommitStock(stock, txn[p])
    /\ orders' = CommitOrders(orders, txn[p])
    /\ txn' = [txn EXCEPT ![p] = EmptyTxn]
    /\ pc' = [pc EXCEPT ![p] = "idle"]
    /\ loc' = [loc EXCEPT ![p] = NoLoc]
    /\ req' = [req EXCEPT ![p] = NoReq]
    /\ res' = result

----------------------------------------------------------------------------
\* OrderService.create_order

\* Positional arguments create_order_with_items passes to deduct_stock after
\* the bound self, and the parameters deduct_stock declares after self.
DeductStockArgsPassed == 5
DeductStockParams == 4

\* Calling a Python function with more positional arguments than it declares
\* raises TypeError before its body runs.
deduct_stock_call == IF DeductStockArgsPassed = DeductStockParams THEN "bound" ELSE "TypeError"

\* A validator that reserves the order row in its session when it passes.
CValidate_reserving(p, r) ==
    /\ pc[p] = "idle"
    /\ LET e == validate_order_request(orders, r)
       IN  IF e = OK
           THEN /\ pc' = [pc EXCEPT ![p] = "c_dao"]
                /\ req' = [req EXCEPT ![p] = r]
                /\ res' = NoRes
                /\ txn' = [txn EXCEPT ![p].inserted =
                              Append(@, StoredOrder(r.machine_id, r.status, r.session_id,
                                                    r.ingredients, r.addons))]
                /\ UNCHANGED <<stock, orders, loc>>
           ELSE Abort(p, txn[p], Failure("create", "validate", "OrderProcessingError", e))

\* The request arrives, the transaction begins and _validate_order_request
\* runs, before any write.
CValidate(p, r) ==
    /\ pc[p] = "idle"
    /\ LET e == validate_order_request(orders, r)
       IN  IF e = OK
           THEN /\ pc' = [pc EXCEPT ![p] = "c_dao"]
                /\ req' = [req EXCEPT ![p] = r]
                /\ res' = NoRes
                /\ UNCHANGED <<stock, orders, txn, loc>>
           ELSE Abort(p, txn[p], Failure("create", "validate", "OrderProcessingError", e))

\* create_order_with_items: the validator runs again, the order row and its
\* line rows are added to the session and flushed, and deduct_stock is called.
\* Every exception is re-raised as OrderProcessingError, by the DAO and again
\* by the service.
CDaoCreate(p) ==
    /\ pc[p] = "c_dao"
    /\ LET e1 == validate_machine_for_order(orders, req[p].machine_id)
           e2 == dao_validate_items_exist(req[p])
           e == IF e1 # OK THEN e1 ELSE e2
           row == StoredOrder(req[p].machine_id, req[p].status, req[p].session_id,
                              req[p].ingredients, req[p].addons)
           written == [txn[p] EXCEPT !.inserted = Append(@, row)]
       IN  IF e # OK
           THEN Abort(p, txn[p], Failure("create", "dao_validate", "OrderProcessingError", e))
           ELSE /\ deduct_stock_call = "TypeError"
                /\ Abort(p, written, Failure("create", "deduct", "OrderProcessingError",
                                     [type |-> "TypeError", reason |-> "deduct_stock_arguments"]))

----------------------------------------------------------------------------
\* Order lifecycle: PUT /orders/{order_id}/status

\* A transition table without the edge processing -> failed.
allowed_transitions_nofail ==
    [s \in Statuses |->
        IF s = "pending" THEN {"processing", "cancelled"}
        ELSE IF s = "processing" THEN {"completed", "cancelled"}
        ELSE {}]

\* A transition table that lets a completed order be cancelled.
allowed_transitions_refund ==
    [s \in Statuses |->
        IF s = "pending" THEN {"processing", "cancelled"}
        ELSE IF s = "processing" THEN {"completed", "failed", "cancelled"}
        ELSE IF s = "completed" THEN {"cancelled"}
        ELSE {}]

allowed_transitions ==
    [s \in Statuses |->
        IF s = "pending" THEN {"processing", "cancelled"}
        ELSE IF s = "processing" THEN {"completed", "failed", "cancelled"}
        ELSE {}]

validate_status_transition(current_status, new_status) ==
    IF new_status \notin allowed_transitions[current_status]
    THEN [type |-> "BusinessRuleError", reason |-> "invalid_status_transition"]
    ELSE OK

\* A restoration whose UPDATE addresses the item's rows of machine M2 rather
\* than of the order's machine.
RestoreLines_m2(o) ==
    [n \in 1..(Len(o.order_items) + Len(o.order_addons)) |->
        IF n <= Len(o.order_items)
        THEN [key |-> <<"M2", o.order_items[n].ingredient_id>>,
              amount |-> o.order_items[n].grams_used]
        ELSE [key |-> <<"M2", o.order_addons[n - Len(o.order_items)].addon_id>>,
              amount |-> o.order_addons[n - Len(o.order_items)].qty]]

\* The lines _handle_order_cancellation walks: order_items, then order_addons,
\* each as the stock row it addresses and the amount it adds back.
RestoreLines(o) ==
    [n \in 1..(Len(o.order_items) + Len(o.order_addons)) |->
        IF n <= Len(o.order_items)
        THEN [key |-> <<o.machine_id, o.order_items[n].ingredient_id>>,
              amount |-> o.order_items[n].grams_used]
        ELSE [key |-> <<o.machine_id, o.order_addons[n - Len(o.order_items)].addon_id>>,
              amount |-> o.order_addons[n - Len(o.order_items)].qty]]

restore_value_none(current_qty, amount) == current_qty
\* A restoration that stops at the largest quantity the admin operations set.
restore_value_capped(current_qty, amount) ==
    IF current_qty + amount > MaxQty THEN MaxQty ELSE current_qty + amount
\* UPDATE ... SET qty_available = qty_available + amount
restore_value(current_qty, amount) == current_qty + amount

\* A restoration that stops after the first line of the order.
handle_order_cancellation_first(seen, lines) ==
    IF lines = <<>> THEN seen
    ELSE LET l == Head(lines)
         IN  IF l.key \in StockKeys /\ seen[l.key] # NoRow
             THEN [seen EXCEPT ![l.key] = restore_value(@, l.amount)]
             ELSE seen

\* The stock rows as the session sees them after the UPDATEs for `lines`, one
\* after the other; an UPDATE whose WHERE matches no row changes nothing.
RECURSIVE handle_order_cancellation(_, _)
handle_order_cancellation(seen, lines) ==
    IF lines = <<>> THEN seen
    ELSE LET l == Head(lines)
             next == IF l.key \in StockKeys /\ seen[l.key] # NoRow
                     THEN [seen EXCEPT ![l.key] = restore_value(@, l.amount)]
                     ELSE seen
         IN  handle_order_cancellation(next, Tail(lines))

order_not_found_none == [type |-> "None", reason |-> "order_not_found"]
\* if not order: raise NotFoundError(f"Order {order_id} not found")
order_not_found == [type |-> "NotFoundError", reason |-> "order_not_found"]

\* The request arrives; session.get(Order, order_id) and
\* _validate_status_transition.
UGet(p, oid, st) ==
    /\ pc[p] = "idle"
    /\ IF oid \notin 1..Len(orders)
       THEN Abort(p, txn[p], Failure("update", "get", "OrderProcessingError", order_not_found))
       ELSE LET cur == orders[oid].status
                e == validate_status_transition(cur, st)
            IN  IF e = OK
                THEN /\ pc' = [pc EXCEPT ![p] = "u_flush"]
                     /\ req' = [req EXCEPT ![p] = [op |-> "update", order_id |-> oid, status |-> st]]
                     /\ res' = NoRes
                     /\ UNCHANGED <<stock, orders, txn, loc>>
                ELSE Abort(p, txn[p], Failure("update", "transition", "OrderProcessingError", e))

restores_stock_always(status) == TRUE
\* if status == 'cancelled': _handle_order_cancellation; elif status ==
\* 'failed': _handle_order_failure; no other status touches the stock.
restores_stock(status) == status \in {"cancelled", "failed"}

\* order.status = status; session.flush(): UPDATE orders SET status WHERE id.
UFlush(p) ==
    /\ pc[p] = "u_flush"
    /\ ~OrderLocked(p, req[p].order_id)
    /\ txn' = [txn EXCEPT ![p].ostatus = @ \cup {<<req[p].order_id, req[p].status>>}]
    /\ pc' = [pc EXCEPT ![p] = IF restores_stock(req[p].status)
                                THEN "u_restore" ELSE "u_commit"]
    /\ res' = NoRes
    /\ UNCHANGED <<stock, orders, req, loc>>

\* _handle_order_cancellation / _handle_order_failure: the UPDATEs of the
\* stock rows of the order's lines, each waiting for the row's lock.
URestore(p) ==
    /\ pc[p] = "u_restore"
    /\ LET lines == RestoreLines(orders[req[p].order_id])
           seen == [k \in StockKeys |-> SeenStock(p, k)]
           after == handle_order_cancellation(seen, lines)
           written == {k \in StockKeys : \E n \in 1..Len(lines) : lines[n].key = k /\ seen[k] # NoRow}
       IN  /\ \A k \in written : ~StockLocked(p, k)
           /\ txn' = [txn EXCEPT ![p].stock = [k \in StockKeys |->
                                                 IF k \in written THEN after[k] ELSE @[k]]]
    /\ pc' = [pc EXCEPT ![p] = "u_commit"]
    /\ res' = NoRes
    /\ UNCHANGED <<stock, orders, req, loc>>

\* session.refresh(order), the response, and the controller's db.commit().
UCommit(p) ==
    /\ pc[p] = "u_commit"
    /\ Finish(p, Success("update"))

----------------------------------------------------------------------------
\* Admin inventory operations.

AdminRows == {<<"M1", "I1">>}
AdminQuantities == {0, MaxQty}

\* InventoryService.update_ingredient_stock / update_addon_stock: the row is
\* created if absent, else set to the supplied quantity (>= 0), and committed.
AdminSetStock(k, v) ==
    /\ \A q \in Procs : txn[q].stock[k] = NoWrite
    /\ CheckQtyAvailable(v)
    /\ stock' = [stock EXCEPT ![k] = v]
    /\ res' = NoRes
    /\ UNCHANGED <<orders, pc, req, txn, loc>>

\* InventoryService.bulk_restock, one item: the row is loaded into the session...
BBegin(p, k, add) ==
    /\ pc[p] = "idle"
    /\ stock[k] # NoRow
    /\ stock[k] + add <= MaxQty
    /\ pc' = [pc EXCEPT ![p] = "b_commit"]
    /\ req' = [req EXCEPT ![p] = [op |-> "restock", key |-> k, qty_to_add |-> add]]
    /\ loc' = [loc EXCEPT ![p] = [qty |-> stock[k]]]
    /\ res' = NoRes
    /\ UNCHANGED <<stock, orders, txn>>

\* ... and session.commit() writes the value computed from what was loaded.
BCommit(p) ==
    /\ pc[p] = "b_commit"
    /\ ~StockLocked(p, req[p].key)
    /\ stock' = [stock EXCEPT ![req[p].key] = loc[p].qty + req[p].qty_to_add]
    /\ pc' = [pc EXCEPT ![p] = "idle"]
    /\ loc' = [loc EXCEPT ![p] = NoLoc]
    /\ req' = [req EXCEPT ![p] = NoReq]
    /\ res' = Success("restock")
    /\ UNCHANGED <<orders, txn>>

----------------------------------------------------------------------------
\* Inventory Ledger: MachineDAO.deduct_stock, driven with the parameters it
\* declares (session, machine_id, ingredients, addons) inside one
\* get_async_transaction unit of work.

DeductReq(m, ings, ads) == [op |-> "deduct", machine_id |-> m, ingredients |-> ings, addons |-> ads]

DeductRequests ==
    { DeductReq("M1", <<Item("I1", 1)>>, <<AddonLine("A1", 1)>>),
      DeductReq("M1", <<Item("I1", 5)>>, <<>>),
      DeductReq("M1", <<Item("I1", 6)>>, <<>>),
      DeductReq("M1", <<Item("I1", 3), Item("I1", 3)>>, <<>>),
      DeductReq("M2", <<Item("I2", 1)>>, <<>>) }

\* The stored order whose lines are on the ledger's rows.
LedgerOrderIds == {1}

\* The lines deduct_stock walks: ingredients, then addons.

DeductLines(r) ==
    [n \in 1..(Len(r.ingredients) + Len(r.addons)) |->
        IF n <= Len(r.ingredients)
        THEN [kind |-> "ingredient", key |-> <<r.machine_id, r.ingredients[n].ingredient_id>>,
              amount |-> r.ingredients[n].grams_used]
        ELSE [kind |-> "addon", key |-> <<r.machine_id, r.addons[n - Len(r.ingredients)].addon_id>>,
              amount |-> r.addons[n - Len(r.ingredients)].qty]]

\* current_qty is None or current_qty < grams_used
insufficient(current_qty, amount) == current_qty = NoRow \/ current_qty < amount

\* UPDATE ... SET qty_available = qty_available - amount
deduct_value(current_qty, amount) == current_qty - amount

InsufficientStock(l, current_qty) ==
    [type |-> "BusinessRuleError",
     reason |-> IF l.kind = "ingredient" THEN "insufficient_ingredient_stock"
                                         ELSE "insufficient_addon_stock",
     item |-> l.key[2], required |-> l.amount, available |-> current_qty]

LBegin(p, r) ==
    /\ pc[p] = "idle"
    /\ pc' = [pc EXCEPT ![p] = "d_select"]
    /\ req' = [req EXCEPT ![p] = r]
    /\ loc' = [loc EXCEPT ![p] = [line |-> 1]]
    /\ res' = NoRes
    /\ UNCHANGED <<stock, orders, txn>>

\* "Check current stock": the SELECT of the line's row and the comparison.
DSelect(p) ==
    /\ pc[p] = "d_select"
    /\ LET l == DeductLines(req[p])[loc[p].line]
           current_qty == SeenStock(p, l.key)
       IN  IF insufficient(current_qty, l.amount)
           THEN Abort(p, txn[p], Failure("deduct", "select", "BusinessRuleError",
                                         InsufficientStock(l, current_qty)))
           ELSE /\ pc' = [pc EXCEPT ![p] = "d_update"]
                /\ res' = NoRes
                /\ UNCHANGED <<stock, orders, req, txn, loc>>

\* "Deduct stock": the UPDATE of the line's row.  It waits for the row's
\* lock, computes from the row as it then is, and fails on the CHECK
\* constraint if the result is negative.
DUpdate(p) ==
    /\ pc[p] = "d_update"
    /\ LET lines == DeductLines(req[p])
           l == lines[loc[p].line]
           new == deduct_value(SeenStock(p, l.key), l.amount)
       IN  /\ ~StockLocked(p, l.key)
           /\ IF ~CheckQtyAvailable(new)
              THEN Abort(p, txn[p], Failure("deduct", "update", "IntegrityError",
                                            [type |-> "IntegrityError", reason |-> "check_qty_available"]))
              ELSE /\ txn' = [txn EXCEPT ![p].stock[l.key] = new]
                   /\ IF loc[p].line < Len(lines)
                      THEN /\ loc' = [loc EXCEPT ![p].line = @ + 1]
                           /\ pc' = [pc EXCEPT ![p] = "d_select"]
                      ELSE /\ loc' = [loc EXCEPT ![p] = NoLoc]
                           /\ pc' = [pc EXCEPT ![p] = "d_commit"]
                   /\ res' = NoRes
                   /\ UNCHANGED <<stock, orders, req>>

\* deduct_stock returned True and the unit of work commits.
DCommit(p) ==
    /\ pc[p] = "d_commit"
    /\ Finish(p, Success("deduct"))

----------------------------------------------------------------------------
\* Transaction Coordinator past the deduct_stock call.  In `Spec` no request
\* gets there (deduct_stock_call is a TypeError); the steps below are
\* create_order_with_items and create_order as they run once that call binds
\* to the parameters deduct_stock declares.

\* Orders the model lets the store hold before it stops admitting requests.
MaxOrders == 3

\* create_order_with_items up to the deduct_stock call: the validator again,
\* then the order row and its line rows added to the session and flushed.
CDaoCreateBound(p) ==
    /\ pc[p] = "c_dao"
    /\ LET e1 == validate_machine_for_order(orders, req[p].machine_id)
           e2 == dao_validate_items_exist(req[p])
           e == IF e1 # OK THEN e1 ELSE e2
           row == StoredOrder(req[p].machine_id, req[p].status, req[p].session_id,
                              req[p].ingredients, req[p].addons)
       IN  IF e # OK
           THEN Abort(p, txn[p], Failure("create", "dao_validate", "OrderProcessingError", e))
           ELSE /\ txn' = [txn EXCEPT ![p].inserted = Append(@, row)]
                /\ pc' = [pc EXCEPT ![p] = "c_select"]
                /\ loc' = [loc EXCEPT ![p] = [line |-> 1]]
                /\ res' = NoRes
                /\ UNCHANGED <<stock, orders, req>>

\* deduct_stock inside the creation: "Check current stock" of one line.
CSelect(p) ==
    /\ pc[p] = "c_select"
    /\ LET l == DeductLines(req[p])[loc[p].line]
           current_qty == SeenStock(p, l.key)
       IN  IF insufficient(current_qty, l.amount)
           THEN Abort(p, txn[p], Failure("create", "deduct", "OrderProcessingError",
                                         InsufficientStock(l, current_qty)))
           ELSE /\ pc' = [pc EXCEPT ![p] = "c_update"]
                /\ res' = NoRes
                /\ UNCHANGED <<stock, orders, req, txn, loc>>

\* deduct_stock inside the creation: "Deduct stock" of one line.
CUpdate(p) ==
    /\ pc[p] = "c_update"
    /\ LET lines == DeductLines(req[p])
           l == lines[loc[p].line]
           new == deduct_value(SeenStock(p, l.key), l.amount)
       IN  /\ ~StockLocked(p, l.key)
           /\ IF ~CheckQtyAvailable(new)
              THEN Abort(p, txn[p], Failure("create", "deduct", "OrderProcessingError",
                                            [type |-> "IntegrityError", reason |-> "check_qty_available"]))
              ELSE /\ txn' = [txn EXCEPT ![p].stock[l.key] = new]
                   /\ IF loc[p].line < Len(lines)
                      THEN /\ loc' = [loc EXCEPT ![p].line = @ + 1]
                           /\ pc' = [pc EXCEPT ![p] = "c_select"]
                      ELSE /\ loc' = [loc EXCEPT ![p] = NoLoc]
                           /\ pc' = [pc EXCEPT ![p] = "c_publish"]
                   /\ res' = NoRes
                   /\ UNCHANGED <<stock, orders, req>>

\* What publisher_.publish can do: return, or raise (rclpy context shut down,
\* invalid handle).
PublishOutcomes == {"returned", "raised"}

\* A publisher that is called again when the call raised.
CPublish_retry(p, outcome) ==
    /\ pc[p] = "c_publish"
    /\ pc' = [pc EXCEPT ![p] = IF outcome = "raised" THEN "c_publish" ELSE "c_commit"]
    /\ res' = NoRes
    /\ UNCHANGED <<stock, orders, req, txn, loc>>

\* get_order_with_details, _generate_order_string (which catches its own
\* exceptions and returns a fallback string) and publish_order_string, which
\* create_order calls inside its try block and inside the transaction.
CPublish(p, outcome) ==
    /\ pc[p] = "c_publish"
    /\ IF outcome = "raised"
       THEN Abort(p, txn[p], Failure("create", "publish", "OrderProcessingError",
                                     [type |-> "Exception", reason |-> "publish_failed"]))
       ELSE /\ pc' = [pc EXCEPT ![p] = "c_commit"]
            /\ res' = NoRes
            /\ UNCHANGED <<stock, orders, req, txn, loc>>

\* A creation request arrives while the store is below the model's bound.
CValidateBounded(p, r) ==
    /\ Len(orders) < MaxOrders
    /\ CValidate(p, r)

\* _order_to_response, and get_async_transaction commits on leaving the block.
CCommit(p) ==
    /\ pc[p] = "c_commit"
    /\ Finish(p, Success("create"))

----------------------------------------------------------------------------

Next ==
    \/ \E p \in Procs :
        \/ \E r \in CreateRequests : CValidate(p, r)
        \/ CDaoCreate(p)
        \/ \E oid \in UpdateOrderIds, st \in Statuses : UGet(p, oid, st)
        \/ UFlush(p)
        \/ URestore(p)
        \/ UCommit(p)
        \/ \E k \in AdminRows : BBegin(p, k, 1)
        \/ BCommit(p)
    \/ \E k \in AdminRows, v \in AdminQuantities : AdminSetStock(k, v)

Spec == Init /\ [][Next]_vars

\* The creation as it runs past the deduct_stock call, next to the lifecycle.
NextCreate ==
    \E p \in Procs :
        \/ \E r \in CreateRequests : CValidateBounded(p, r)
        \/ CDaoCreateBound(p)
        \/ CSelect(p)
        \/ CUpdate(p)
        \/ \E outcome \in PublishOutcomes : CPublish(p, outcome)
        \/ CCommit(p)
        \/ \E oid \in UpdateOrderIds, st \in Statuses : UGet(p, oid, st)
        \/ UFlush(p)
        \/ URestore(p)
        \/ UCommit(p)

SpecCreate == Init /\ [][NextCreate]_vars

\* Sequential calls: one caller, each call run to its end before the next
\* begins, creating orders as pending or processing and moving the stored and
\* the created order through the lifecycle; no admin operation.
SerialCaller == "p1"
SerialRequests == {r \in CreateRequests : r.status \in {"pending", "processing"}}
SerialOrderIds == {1, 3}

NextSerial ==
    \/ \E r \in SerialRequests : CValidateBounded(SerialCaller, r)
    \/ CDaoCreateBound(SerialCaller)
    \/ CSelect(SerialCaller)
    \/ CUpdate(SerialCaller)
    \/ \E outcome \in PublishOutcomes : CPublish(SerialCaller, outcome)
    \/ CCommit(SerialCaller)
    \/ \E oid \in SerialOrderIds, st \in Statuses : UGet(SerialCaller, oid, st)
    \/ UFlush(SerialCaller)
    \/ URestore(SerialCaller)
    \/ UCommit(SerialCaller)

SpecSerial == Init /\ [][NextSerial]_vars

\* Creations whose requests carry several lines for one ingredient or one
\* addon: OrderCreateRequest takes any list of lines, the validator looks at
\* each line on its own, and order_items / order_addons have no unique key on
\* (order_id, ingredient_id) / (order_id, addon_id).  The stored
\* order 1 is moved through the lifecycle next to them: machine M1 takes a
\* new order once it has left pending.
DuplicateRequests ==
    { CreateReq("M1", "pending", "salad-d1", <<Item("I1", 2), Item("I1", 2)>>, <<>>),
      CreateReq("M1", "pending", "salad-d2", <<Item("I1", 3), Item("I1", 3)>>, <<>>),
      CreateReq("M1", "processing", "smoothie-d3", <<Item("I1", 2), Item("I1", 3)>>, <<>>),
      CreateReq("M1", "processing", "smoothie-d4", <<Item("I1", 1)>>, <<AddonLine("A1", 1), AddonLine("A1", 1)>>),
      CreateReq("M1", "pending", "smoothie-d5", <<Item("I1", 1)>>, <<AddonLine("A1", 2), AddonLine("A1", 1)>>) }

NextDuplicate ==
    \E p \in Procs :
        \/ \E r \in DuplicateRequests : CValidateBounded(p, r)
        \/ CDaoCreateBound(p)
        \/ CSelect(p)
        \/ CUpdate(p)
        \/ \E outcome \in PublishOutcomes : CPublish(p, outcome)
        \/ CCommit(p)
        \/ \E oid \in LedgerOrderIds, st \in Statuses : UGet(p, oid, st)
        \/ UFlush(p)
        \/ URestore(p)
        \/ UCommit(p)

SpecDuplicate == Init /\ [][NextDuplicate]_vars

\* The ledger driven directly, next to the lifecycle and the admin operations.
NextLedger ==
    \/ \E p \in Procs :
        \/ \E r \in DeductRequests : LBegin(p, r)
        \/ DSelect(p)
        \/ DUpdate(p)
        \/ DCommit(p)
        \/ \E oid \in LedgerOrderIds, st \in Statuses : UGet(p, oid, st)
        \/ UFlush(p)
        \/ URestore(p)
        \/ UCommit(p)
        \/ \E k \in AdminRows : BBegin(p, k, 1)
        \/ BCommit(p)
    \/ \E k \in AdminRows, v \in AdminQuantities : AdminSetStock(k, v)

SpecLedger == Init /\ [][NextLedger]_vars

\* One admin session doing bulk restocks next to the ledger's deductions and
\* the lifecycle's restorations of the other requests; the admin operation
\* that sets a quantity is left out.
Restocker == "p2"

NextRestock ==
    \/ \E p \in Procs :
        \/ \E r \in DeductRequests : LBegin(p, r)
        \/ DSelect(p)
        \/ DUpdate(p)
        \/ DCommit(p)
        \/ \E oid \in LedgerOrderIds, st \in Statuses : UGet(p, oid, st)
        \/ UFlush(p)
        \/ URestore(p)
        \/ UCommit(p)
    \/ \E k \in AdminRows : BBegin(Restocker, k, 1)
    \/ BCommit(Restocker)

SpecRestock == Init /\ [][NextRestock]_vars

----------------------------------------------------------------------------
\* Recipe validation on its own: _validate_ingredient_constraints applied to
\* the ingredient lines of a request (grams_used is 1..1000 in the schema;
\* total_grams stays within 25 here).

RecipeGrams == {1, 2, 9, 11}
RecipeLines == {Item(i, g) : i \in Ingredients, g \in RecipeGrams}
RecipeRequests ==
    {CreateReq("M1", "pending", "smoothie-r", ings, <<>>) :
        ings \in {<<a>> : a \in RecipeLines} \cup {<<a, b>> : a \in RecipeLines, b \in RecipeLines}}

InitRecipe ==
    /\ stock = InitStock
    /\ orders = InitOrders
    /\ \E p \in Procs, r \in RecipeRequests :
         /\ pc = [q \in Procs |-> IF q = p THEN "r_ready" ELSE "idle"]
         /\ req = [q \in Procs |-> IF q = p THEN r ELSE NoReq]
    /\ txn = [p \in Procs |-> EmptyTxn]
    /\ loc = [p \in Procs |-> NoLoc]
    /\ res = NoRes

RecipeValidate(p) ==
    /\ pc[p] = "r_ready"
    /\ LET e == validate_ingredient_constraints(req[p])
       IN  res' = IF e = OK THEN Success("recipe")
                            ELSE Failure("recipe", "validate", e.type, e)
    /\ pc' = [pc EXCEPT ![p] = "idle"]
    /\ UNCHANGED <<stock, orders, req, txn, loc>>

NextRecipe == \E p \in Procs : RecipeValidate(p)

SpecRecipe == InitRecipe /\ [][NextRecipe]_vars

----------------------------------------------------------------------------
\* The dispatch renderer: _generate_order_string(order, liquids).  A session
\* id is a sequence of characters (None and "" are both <<>>), a process step
\* is a record of the parts its f-string puts together, and the result is the
\* list process_steps that the code joins with ", " between "Order #<id>" and
\* the timestamp.

SmoothiePrefix == <<"s", "m", "o", "o", "t", "h", "i", "e", "-">>
SaladPrefix == <<"s", "a", "l", "a", "d", "-">>

\* str.startswith
startswith(s, prefix) ==
    /\ Len(s) >= Len(prefix)
    /\ SubSeq(s, 1, Len(prefix)) = prefix

IngredientName == [i \in Ingredients |-> IF i = "I1" THEN "Banana" ELSE "Spinach"]
AddonName == [a \in Addons |-> "ProteinPowder"]

Step(kind, name, amount, unit, qty) ==
    [kind |-> kind, name |-> name, amount |-> amount, unit |-> unit, qty |-> qty]

container_type(session_id) ==
    IF session_id # <<>> /\ startswith(session_id, SmoothiePrefix) THEN "1 cup"
    ELSE IF session_id # <<>> /\ startswith(session_id, SaladPrefix) THEN "1 bowl"
    ELSE "1 container"

\* f"dispense {ingredient_name} {qty_ml}ml" / "... {grams_used}g" / "dispense {ingredient_name}"
dispense_step(item) ==
    LET ingredient_name == IF item.ingredient_id \in Ingredients
                           THEN IngredientName[item.ingredient_id] ELSE "Unknown Item"
    IN  IF item.qty_ml > 0 THEN Step("dispense", ingredient_name, item.qty_ml, "ml", "")
        ELSE IF item.grams_used > 0 THEN Step("dispense", ingredient_name, item.grams_used, "g", "")
        ELSE Step("dispense", ingredient_name, 0, "", "")

\* f"add {addon_name} x{qty}" with qty = addon.qty or 1
addon_step(addon) ==
    LET addon_name == IF addon.addon_id \in Addons THEN AddonName[addon.addon_id] ELSE "Unknown Addon"
    IN  Step("add", addon_name, IF addon.qty = 0 THEN 1 ELSE addon.qty, "x", "")

\* dict.get(key, default)
get(d, key, default) == IF key \in DOMAIN d THEN d[key] ELSE default

\* f"add {qty} {liquid_name}"
liquid_step(liquid) ==
    Step("add", get(liquid, "liquid_name", "liquid"), 0, "", get(liquid, "qty", "0 ml"))

MoveStep == Step("move to next chamber", "", 0, "", "")
FinishingStep == Step("add finishing touches", "", 0, "", "")

emits_move_items_only(order) == order.order_items # <<>>
\* if order.order_items or order.order_addons
emits_move(order) == order.order_items # <<>> \/ order.order_addons # <<>>

generate_order_string(order, liquids) ==
    LET container == <<Step("container", container_type(order.session_id), 0, "", "")>>
        items == [n \in 1..Len(order.order_items) |-> dispense_step(order.order_items[n])]
        addons == [n \in 1..Len(order.order_addons) |-> addon_step(order.order_addons[n])]
        move == IF emits_move(order) THEN <<MoveStep>> ELSE <<>>
        last == IF liquids # <<>>
                THEN [n \in 1..Len(liquids) |-> liquid_step(liquids[n])]
                ELSE <<FinishingStep>>
    IN  container \o items \o addons \o move \o last

\* Orders and liquids handed to the renderer.
RenderSessionIds ==
    { <<>>,
      SmoothiePrefix \o <<"a", "b", "c">>,
      SaladPrefix \o <<"1">>,
      SmoothiePrefix,
      SubSeq(SmoothiePrefix, 1, 8),
      <<"x">> \o SaladPrefix }
RenderItems ==
    { [ingredient_id |-> "I1", grams_used |-> 0, qty_ml |-> 150],
      [ingredient_id |-> "I2", grams_used |-> 30, qty_ml |-> 0],
      [ingredient_id |-> "deleted", grams_used |-> 0, qty_ml |-> 0] }
RenderAddons == { AddonLine("A1", 1), AddonLine("A1", 0) }
RenderLiquids ==
    { <<>>,
      <<[liquid_name |-> "milk", qty |-> "50 ml"]>>,
      <<[liquid_name |-> "milk", qty |-> "50 ml"], [liquid_name |-> "water"]>> }
UpToTwo(S) == {<<>>} \cup {<<a>> : a \in S} \cup {<<a, b>> : a \in S, b \in S}
RenderOrders ==
    { [session_id |-> sid, order_items |-> its, order_addons |-> ads] :
        sid \in RenderSessionIds, its \in UpToTwo(RenderItems), ads \in UpToTwo(RenderAddons) }

InitRender ==
    /\ stock = InitStock
    /\ orders = InitOrders
    /\ \E p \in Procs, o \in RenderOrders, l \in RenderLiquids :
         /\ pc = [q \in Procs |-> IF q = p THEN "g_ready" ELSE "idle"]
         /\ req = [q \in Procs |-> IF q = p THEN [op |-> "render", order |-> o, liquids |-> l]
                                            ELSE NoReq]
    /\ txn = [p \in Procs |-> EmptyTxn]
    /\ loc = [p \in Procs |-> NoLoc]
    /\ res = NoRes

GenerateOrderString(p) ==
    /\ pc[p] = "g_ready"
    /\ res' = [op |-> "render", ok |-> TRUE,
               process_steps |-> generate_order_string(req[p].order, req[p].liquids)]
    /\ pc' = [pc EXCEPT ![p] = "idle"]
    /\ UNCHANGED <<stock, orders, req, txn, loc>>

NextRender == \E p \in Procs : GenerateOrderString(p)

SpecRender == InitRender /\ [][NextRender]_vars

----------------------------------------------------------------------------
\* One CreateOrder call as a function of the committed state it starts from,
\* its request and what the publisher does, run alone and past the
\* deduct_stock call: create_order and create_order_with_items, step by step.
\* The request carries the caller's liquids; its session id is a sequence of
\* characters, as the renderer reads it.

\* deduct_stock from line n on: for each line the check, then the UPDATE.
RECURSIVE deduct_stock(_, _, _)
deduct_stock(st, lines, n) ==
    IF n > Len(lines) THEN [ok |-> TRUE, stock |-> st]
    ELSE LET l == lines[n]
         IN  IF insufficient(st[l.key], l.amount)
             THEN [ok |-> FALSE, cause |-> InsufficientStock(l, st[l.key])]
             ELSE deduct_stock([st EXCEPT ![l.key] = deduct_value(@, l.amount)], lines, n + 1)

\* An order row that keeps one add-on line per liquid of the request.
order_data_liquids(r) ==
    StoredOrder(r.machine_id, r.status, r.session_id, r.ingredients,
                r.addons \o [n \in 1..Len(r.liquids) |-> AddonLine("A1", 1)])
\* order_data, and the OrderItem / OrderAddon rows of the request's lines.
order_data(r) ==
    StoredOrder(r.machine_id, r.status, r.session_id, r.ingredients, r.addons)

CreateFailed(os, st, stage, cause) ==
    [ok |-> FALSE, stage |-> stage, cause |-> cause, orders |-> os, stock |-> st,
     order_string |-> <<>>]

create_order(os, st, r, outcome) ==
    LET e == validate_order_request(os, r)
        e2 == dao_validate_items_exist(r)
        order == order_data(r)
        d == deduct_stock(st, DeductLines(r), 1)
        order_string == generate_order_string(order, r.liquids)
    IN  IF e # OK THEN CreateFailed(os, st, "validate", e)
        ELSE IF e2 # OK THEN CreateFailed(os, st, "dao_validate", e2)
        ELSE IF ~d.ok THEN CreateFailed(os, st, "deduct", d.cause)
        ELSE IF outcome = "raised"
        THEN CreateFailed(os, st, "publish", [type |-> "Exception", reason |-> "publish_failed"])
        ELSE [ok |-> TRUE, stage |-> "commit", cause |-> OK,
              orders |-> Append(os, order), stock |-> d.stock,
              order_string |-> order_string]

\* Two calls with the same request but for the liquids, each from the same
\* committed state.
WithLiquids(r, l) ==
    [op |-> r.op, machine_id |-> r.machine_id, status |-> r.status, session_id |-> r.session_id,
     ingredients |-> r.ingredients, addons |-> r.addons, liquids |-> l]

LiquidRequests ==
    { CreateReq("M1", "processing", SmoothiePrefix \o <<"1">>, <<Item("I1", 1)>>, <<AddonLine("A1", 1)>>),
      CreateReq("M1", "pending", SaladPrefix \o <<"1">>, <<Item("I1", 2), Item("I2", 2)>>, <<>>),
      CreateReq("M1", "processing", <<>>, <<Item("I1", 6)>>, <<>>),
      CreateReq("M1", "processing", SmoothiePrefix \o <<"3">>, <<Item("I1", 3), Item("I2", 1)>>, <<>>),
      CreateReq("M2", "processing", SmoothiePrefix \o <<"5">>, <<Item("I1", 1)>>, <<>>) }

\* The stored orders with order 1 still pending, and with order 1 completed.
LiquidStartOrders ==
    { InitOrders, [InitOrders EXCEPT ![1].status = "completed"] }

InitLiquids ==
    /\ stock = InitStock
    /\ orders \in LiquidStartOrders
    /\ \E r \in LiquidRequests, l1 \in RenderLiquids, l2 \in RenderLiquids :
         req = [q \in Procs |-> IF q = "p1" THEN WithLiquids(r, l1) ELSE WithLiquids(r, l2)]
    /\ pc = [p \in Procs |-> "l_ready"]
    /\ txn = [p \in Procs |-> EmptyTxn]
    /\ loc = [p \in Procs |-> NoLoc]
    /\ res = NoRes

CreateTwice(outcome) ==
    /\ \A p \in Procs : pc[p] = "l_ready"
    /\ res' = [op |-> "create_twice", ok |-> TRUE,
               first |-> create_order(orders, stock, req["p1"], outcome),
               second |-> create_order(orders, stock, req["p2"], outcome)]
    /\ pc' = [p \in Procs |-> "idle"]
    /\ UNCHANGED <<stock, orders, req, txn, loc>>

NextLiquids == \E outcome \in PublishOutcomes : CreateTwice(outcome)

SpecLiquids == InitLiquids /\ [][NextLiquids]_vars

-----------------------------------------------------------------------------
\* Inventory reports.  An entry is one machine_ingredients / machine_addons
\* row as a report reads it; quantity and threshold are both >= 0 (CHECK
\* constraints of the two tables).

Entry(item_type, qty_available, low_stock_threshold) ==
    [item_type |-> item_type, qty_available |-> qty_available, low_stock_threshold |-> low_stock_threshold]

Entries == { Entry(t, q, th) : t \in {"ingredient", "addon"}, q \in 0..MaxQty, th \in 0..MaxQty }

\* IngredientStockUpdate.low_stock_threshold_g is None.
NoThreshold == -1

\* The entry is left out of the report.
Skipped == [reported |-> FALSE]

\* Column stock_status of the views v_machine_ingredient_inventory and
\* v_machine_addon_inventory (declared in models/views.py, defined in the
\* database schema).
stock_status(qty_available, low_stock_threshold) ==
    IF qty_available = 0 THEN "OUT_OF_STOCK"
    ELSE IF qty_available <= low_stock_threshold THEN "LOW_STOCK"
    ELSE "AVAILABLE"

\* Fields MachineInventoryItemResponse declares without a default, and the
\* keywords get_machine_inventory_admin passes to it.
RequiredItemFields ==
    {"id", "name", "item_type", "qty_available", "qty_available_unit",
     "low_stock_threshold", "is_low_stock", "is_available"}
AdminItemKeywords ==
    {"id", "name", "emoji", "qty_available", "unit", "low_stock_threshold",
     "is_low_stock", "price_per_unit"}

\* InventoryService.get_machine_inventory_admin: the item built from one row.
\* The constructor raises for the required fields it is not given, and the
\* service re-raises.
get_machine_inventory_admin(e, include_out_of_stock) ==
    IF ~include_out_of_stock /\ e.qty_available <= 0
    THEN Skipped
    ELSE IF RequiredItemFields \ AdminItemKeywords # {}
    THEN [reported |-> FALSE, raised |-> "ValidationError",
          missing |-> RequiredItemFields \ AdminItemKeywords]
    ELSE [reported |-> TRUE, by |-> "inventory_service",
          qty_available |-> e.qty_available,
          low_stock_threshold |-> e.low_stock_threshold,
          is_low_stock |-> e.qty_available <= e.low_stock_threshold]

\* MachineService.get_full_inventory_admin: the item built from one row of the
\* view.
get_full_inventory_admin(e, include_out_of_stock) ==
    LET status == stock_status(e.qty_available, e.low_stock_threshold)
    IN  IF ~include_out_of_stock /\ status = "OUT_OF_STOCK"
        THEN Skipped
        ELSE [reported |-> TRUE, by |-> "machine_service",
              qty_available |-> e.qty_available,
              low_stock_threshold |-> e.low_stock_threshold,
              is_low_stock |-> status = "LOW_STOCK",
              is_available |-> status = "AVAILABLE"]

\* MachineService.get_machine_addons / MachineInventoryViewDAO: the rows of the
\* view with the status asked for (None: every row), each with its status.
get_machine_addons(e, status_filter) ==
    LET status == stock_status(e.qty_available, e.low_stock_threshold)
    IN  IF status_filter # "None" /\ status # status_filter
        THEN Skipped
        ELSE [reported |-> TRUE, by |-> "view",
              qty_available |-> e.qty_available,
              low_stock_threshold |-> e.low_stock_threshold,
              stock_status |-> status]

\* InventoryService.update_ingredient_stock on an existing row: the quantity
\* is set, the threshold too when the request carries one, and the response
\* reports the row.
update_ingredient_stock(e, qty_available_g, low_stock_threshold_g) ==
    LET threshold == IF low_stock_threshold_g # NoThreshold THEN low_stock_threshold_g
                                                      ELSE e.low_stock_threshold
    IN  [reported |-> TRUE, by |-> "stock_update",
         qty_available |-> qty_available_g,
         low_stock_threshold |-> threshold,
         is_low_stock |-> qty_available_g <= threshold]

InitInventory ==
    /\ stock = InitStock
    /\ orders = InitOrders
    /\ \E p \in Procs, e \in Entries :
         /\ pc = [q \in Procs |-> IF q = p THEN "i_ready" ELSE "idle"]
         /\ req = [q \in Procs |-> IF q = p THEN [op |-> "inventory", entry |-> e] ELSE NoReq]
    /\ txn = [p \in Procs |-> EmptyTxn]
    /\ loc = [p \in Procs |-> NoLoc]
    /\ res = NoRes

\* The response that carries the item built for the entry, or the failure.
InventoryReply(item) == [op |-> "inventory", ok |-> "raised" \notin DOMAIN item, item |-> item]

GetMachineInventoryAdmin(p, include_out_of_stock) ==
    /\ pc[p] = "i_ready"
    /\ res' = InventoryReply(get_machine_inventory_admin(req[p].entry, include_out_of_stock))
    /\ pc' = [pc EXCEPT ![p] = "idle"]
    /\ UNCHANGED <<stock, orders, req, txn, loc>>

GetFullInventoryAdmin(p, include_out_of_stock) ==
    /\ pc[p] = "i_ready"
    /\ res' = InventoryReply(get_full_inventory_admin(req[p].entry, include_out_of_stock))
    /\ pc' = [pc EXCEPT ![p] = "idle"]
    /\ UNCHANGED <<stock, orders, req, txn, loc>>

GetMachineAddons(p, status_filter) ==
    /\ pc[p] = "i_ready"
    /\ req[p].entry.item_type = "addon"
    /\ res' = InventoryReply(get_machine_addons(req[p].entry, status_filter))
    /\ pc' = [pc EXCEPT ![p] = "idle"]
    /\ UNCHANGED <<stock, orders, req, txn, loc>>

UpdateIngredientStock(p, qty_available_g, low_stock_threshold_g) ==
    /\ pc[p] = "i_ready"
    /\ req[p].entry.item_type = "ingredient"
    /\ res' = InventoryReply(update_ingredient_stock(req[p].entry, qty_available_g, low_stock_threshold_g))
    /\ pc' = [pc EXCEPT ![p] = "idle"]
    /\ UNCHANGED <<stock, orders, req, txn, loc>>

NextInventory ==
    \E p \in Procs :
        \/ \E include_out_of_stock \in BOOLEAN : GetMachineInventoryAdmin(p, include_out_of_stock)
        \/ \E include_out_of_stock \in BOOLEAN : GetFullInventoryAdmin(p, include_out_of_stock)
        \/ \E status_filter \in {"None", "AVAILABLE", "LOW_STOCK", "OUT_OF_STOCK"} :
              GetMachineAddons(p, status_filter)
        \/ \E q \in {0, 1, MaxQty}, th \in {NoThreshold, 0, 1} : UpdateIngredientStock(p, q, th)

SpecInventory == InitInventory /\ [][NextInventory]_vars

----------------------------------------------------------------------------
\* Properties.

\* Total amount the lines of request r take from stock row k.
RECURSIVE SumFor(_, _, _)
SumFor(lines, k, n) ==
    IF n = 0 THEN 0
    ELSE (IF lines[n].key = k THEN lines[n].amount ELSE 0) + SumFor(lines, k, n - 1)

LineSum(r, k) == SumFor(DeductLines(r), k, Len(r.ingredients) + Len(r.addons))

\* Every line amount of r is covered by the stock st.
Covered(st, r) ==
    \A k \in StockKeys : LineSum(r, k) > 0 => (st[k] # NoRow /\ st[k] >= LineSum(r, k))

\* The stock rows that exist.
RowExists(k) == InitStock[k] # NoRow

\* A step of handler p in create_order.
CreateStep(p) == (\E r \in CreateRequests : CValidate(p, r)) \/ CDaoCreate(p)

\* C1: every CreateOrder attempt that fails, at whatever step, leaves every
\* stock row and the orders table as they were before the step that failed,
\* and nothing the attempt wrote remains in its session; the steps of the
\* attempt before the failure change no committed row either.
C1_FailedCreateLeavesNothing ==
    [][\A p \in Procs :
         CreateStep(p) =>
            /\ stock' = stock
            /\ orders' = orders
            /\ (res'.op = "create" /\ ~res'.ok) => txn'[p] = EmptyTxn]_vars

\* A CreateOrder has failed after its order and line rows were flushed.
C1_Witness ==
    /\ res.op = "create"
    /\ ~res.ok
    /\ res.stage = "deduct"
    /\ Len(orders) = Len(InitOrders)

\* C4: a TransitionStatus whose (from, to) pair is not in the transition table
\* (to = from and every pair out of a terminal status included) fails with
\* BusinessRuleError and leaves the order's status, every other order and
\* every stock row unchanged.
TransitionTable ==
    [s \in Statuses |->
        CASE s = "pending" -> {"processing", "cancelled"}
          [] s = "processing" -> {"completed", "failed", "cancelled"}
          [] OTHER -> {}]

C4_IllegalTransitionFails ==
    [][\A p \in Procs, oid \in UpdateOrderIds, st \in Statuses :
         (/\ oid \in 1..Len(orders)
          /\ st \notin TransitionTable[orders[oid].status]
          /\ UGet(p, oid, st))
         => /\ res'.op = "update"
            /\ ~res'.ok
            /\ res'.cause.type = "BusinessRuleError"
            /\ orders' = orders
            /\ stock' = stock
            /\ txn' = txn]_vars

\* A transition out of a terminal status has been refused.
C4_Witness ==
    /\ res.op = "update"
    /\ ~res.ok
    /\ res.stage = "transition"
    /\ \E oid \in 1..Len(orders) : orders[oid].status \in {"completed", "failed", "cancelled"}

\* C5: when the machine of a CreateOrder has a committed order in pending or
\* processing at the admission check (of the service, or of the DAO), the
\* CreateOrder fails on the machine-unavailable business rule, no order is
\* persisted and no stock row changes.
HasInFlight(os, m) == \E i \in 1..Len(os) : os[i].machine_id = m /\ os[i].status \in {"pending", "processing"}

MachineUnavailable(e) ==
    /\ e.type = "BusinessRuleError"
    /\ e.reason \in {"machine_processing_another_order", "machine_not_active"}

C6_OneInFlightPerMachine ==
    /\ \A m \in Machines :
         Cardinality({i \in 1..Len(orders) : orders[i].machine_id = m
                                             /\ orders[i].status \in {"pending", "processing"}}) <= 1
    /\ \A p, q \in Procs :
         (p # q /\ pc[p] = "c_dao" /\ pc[q] = "c_dao") => req[p].machine_id # req[q].machine_id

\* C8: a CreateOrder that passes admission, referential and recipe validation
\* and whose line amounts are all covered by the machine's stock succeeds: one
\* order with the caller's status and one line per requested ingredient and
\* add-on is persisted and returned.
C8_ValidCreateSucceeds ==
    [][\A p \in Procs :
         (/\ pc[p] = "c_dao"
          /\ validate_order_request(orders, req[p]) = OK
          /\ Covered(stock, req[p])
          /\ CDaoCreate(p))
         => /\ res'.op = "create"
            /\ res'.ok
            /\ orders' = Append(orders, StoredOrder(req[p].machine_id, req[p].status, req[p].session_id,
                                                    req[p].ingredients, req[p].addons))]_vars

\* C9: the creation of an order reduces the committed quantity of every stock
\* row on it by exactly the sum of the order's line amounts for that row, and
\* changes no other row.
C9_DeductedExactlyOnce ==
    [][\A p \in Procs :
         (/\ pc[p] = "c_dao"
          /\ validate_order_request(orders, req[p]) = OK
          /\ Covered(stock, req[p])
          /\ CDaoCreate(p))
         => \A k \in StockKeys :
               stock'[k] = IF LineSum(req[p], k) > 0 THEN stock[k] - LineSum(req[p], k) ELSE stock[k]]_vars

\* C3: conservation.  A created order takes its line amounts from the stock,
\* and adding back the amounts of its stored lines (what a transition to
\* cancelled or failed does) gives the stock there was before the creation.
C3_Conservation ==
    [][\A p \in Procs :
         (/\ pc[p] = "c_dao"
          /\ validate_order_request(orders, req[p]) = OK
          /\ Covered(stock, req[p])
          /\ CDaoCreate(p))
         => /\ Len(orders') = Len(orders) + 1
            /\ stock' # stock
            /\ handle_order_cancellation(stock', RestoreLines(orders'[Len(orders')])) = stock]_vars

\* C2: after every operation on the ledger (the deductions of a creation, the
\* restores of a transition to cancelled or failed, an admin stock-set, a
\* restock) every stock row that exists holds a quantity >= 0, committed or
\* written in a session.
C2_StockNeverNegative ==
    \A k \in StockKeys :
        RowExists(k) =>
            /\ stock[k] >= 0
            /\ \A p \in Procs : txn[p].stock[k] # NoWrite => txn[p].stock[k] >= 0

\* A deduction of a row's whole quantity has committed.
C2_Witness ==
    /\ res.op = "deduct"
    /\ res.ok
    /\ stock[<<"M1", "I1">>] = 0

\* C7: in every interleaving of the select and update steps of concurrent
\* deductions on the same stock row, a deduction that commits leaves every
\* row >= 0 and takes exactly its line amounts from the quantity that was
\* committed when it commits, so the committed deductions never take more
\* than the stock that was available.
C7_NoOversellUnderConcurrency ==
    [][\A p \in Procs :
         (pc[p] = "d_commit" /\ DCommit(p))
         => \A k \in StockKeys :
               RowExists(k) =>
                  /\ stock'[k] >= 0
                  /\ stock'[k] = stock[k] - LineSum(req[p], k)]_vars

\* Two deductions passed the stock check on the same row and the second
\* UPDATE was refused by the row's CHECK constraint.
C7_Witness ==
    /\ res.op = "deduct"
    /\ ~res.ok
    /\ res.stage = "update"
    /\ res.cause.type = "IntegrityError"

\* C10: Deduct on an existing row fails with InsufficientStock carrying the
\* required and the available amount when the amount exceeds the quantity
\* available, and leaves the row unchanged; otherwise (amount equal to the
\* quantity included) it passes the check and its UPDATE sets the row to the
\* old quantity minus the amount.
C10_DeductSemantics ==
    [][\A p \in Procs :
         /\ (pc[p] = "d_select" /\ DSelect(p))
            => LET l == DeductLines(req[p])[loc[p].line]
                   q == SeenStock(p, l.key)
               IN  q # NoRow =>
                     IF l.amount > q
                     THEN /\ res'.op = "deduct" /\ ~res'.ok
                          /\ res'.cause.type = "InsufficientStockError"
                          /\ res'.cause.required = l.amount
                          /\ res'.cause.available = q
                          /\ stock' = stock
                          /\ txn'[p] = EmptyTxn
                     ELSE pc'[p] = "d_update" /\ stock' = stock /\ txn' = txn
         /\ (pc[p] = "d_update" /\ DUpdate(p) /\ pc'[p] # "idle")
            => LET l == DeductLines(req[p])[loc[p].line]
               IN  txn'[p].stock[l.key] = SeenStock(p, l.key) - l.amount]_vars

\* Total amount the stored lines of order o hold against stock row k.
OrderLineSum(o, k) == SumFor(RestoreLines(o), k, Len(o.order_items) + Len(o.order_addons))

\* C11: a transition to cancelled or failed commits the status change and the
\* restoration of every line of the order in one step; no step of the
\* request before that commit changes a committed status or stock row, so no
\* committed state has the new status with lines missing, or lines restored
\* under the old status.
C11_CompensationAtomic ==
    [][\A p \in Procs :
         (/\ pc[p] \in {"u_flush", "u_restore", "u_commit"}
          /\ pc'[p] # pc[p]
          /\ req[p].status \in {"cancelled", "failed"})
         => IF pc[p] = "u_commit"
            THEN /\ orders'[req[p].order_id].status = req[p].status
                 /\ \A k \in StockKeys :
                      stock'[k] = IF RowExists(k)
                                  THEN stock[k] + OrderLineSum(orders[req[p].order_id], k)
                                  ELSE stock[k]
            ELSE stock' = stock /\ orders' = orders]_vars

\* The cancellation of order 1 has committed with both of its lines restored.
C11_Witness ==
    /\ res.op = "update"
    /\ res.ok
    /\ orders[1].status = "cancelled"
    /\ stock[<<"M1", "I1">>] = InitStock[<<"M1", "I1">>] + 1
    /\ stock[<<"M1", "A1">>] = InitStock[<<"M1", "A1">>] + 1

\* C12: every change of a persisted order's status follows an edge of the
\* transition table, so a completed, failed or cancelled order never changes
\* status again.
C12_StatusFollowsTable ==
    [][\A i \in 1..Len(orders) :
         (i <= Len(orders') /\ orders'[i].status # orders[i].status)
         => orders'[i].status \in TransitionTable[orders[i].status]]_vars

\* C13: for every pair (from, to) of the transition table, TransitionStatus
\* on an existing order read in status `from` passes the transition check,
\* never fails afterwards, and ends by committing `to` as the order's status.
C13_LegalTransitionSucceeds ==
    [][\A p \in Procs :
         /\ \A oid \in UpdateOrderIds, st \in Statuses :
              (/\ oid \in 1..Len(orders)
               /\ st \in TransitionTable[orders[oid].status]
               /\ UGet(p, oid, st))
              => /\ pc'[p] = "u_flush"
                 /\ req'[p] = [op |-> "update", order_id |-> oid, status |-> st]
         /\ (pc[p] \in {"u_flush", "u_restore", "u_commit"} /\ pc'[p] = "idle")
              => /\ res' = Success("update")
                 /\ orders'[req[p].order_id].status = req[p].status]_vars

\* Order 1 has gone pending -> processing -> completed.
C13_Witness ==
    /\ res.op = "update"
    /\ res.ok
    /\ orders[1].status = "completed"

\* C14: when the validator or the ledger raises a typed error during
\* CreateOrder, the caller receives that first error with the same kind.
TypedErrors == {"NotFoundError", "ValidationError", "BusinessRuleError", "InsufficientStockError"}

C14_ErrorReachesCallerUnchanged ==
    [][(/\ res'.op = "create"
        /\ ~res'.ok
        /\ res'.cause.type \in TypedErrors)
       => res'.error = res'.cause.type]_vars

UnknownItem(r) ==
    \/ \E n \in 1..Len(r.ingredients) : r.ingredients[n].ingredient_id \notin Ingredients
    \/ \E n \in 1..Len(r.addons) : r.addons[n].addon_id \notin Addons

\* C17: a CreateOrder that passes admission and names an ingredient or add-on
\* that is not in the catalog fails with NotFound before any mutation: no
\* order is persisted and no stock row changes.
C17_UnknownItemIsNotFound ==
    [][\A p \in Procs, r \in CreateRequests :
         (/\ validate_machine_for_order(orders, r.machine_id) = OK
          /\ UnknownItem(r)
          /\ CValidate(p, r))
         => /\ res'.op = "create" /\ ~res'.ok
            /\ res'.cause.type = "NotFoundError"
            /\ orders' = orders /\ stock' = stock /\ txn'[p] = EmptyTxn]_vars

\* Every ingredient line of r is within its item's limits, in exact arithmetic.
WithinLimits(r) ==
    LET total_grams == SumGrams(r.ingredients)
    IN  \A n \in 1..Len(r.ingredients) :
          LET l == r.ingredients[n]
          IN  /\ l.grams_used >= Ingredient[l.ingredient_id].min_qty_g
              /\ l.grams_used * 100 <= Ingredient[l.ingredient_id].max_percent_limit * total_grams

\* C18: recipe validation passes if and only if every ingredient line has
\* grams_used >= min_qty_g and grams_used * 100 <= max_percent_limit *
\* total_grams (a line exactly at a limit is accepted), and a violation fails
\* with ValidationError.
C18_RecipeLimits ==
    [][\A p \in Procs :
         RecipeValidate(p)
         => /\ res'.ok <=> WithinLimits(req[p])
            /\ ~res'.ok => res'.cause.type = "ValidationError"]_vars

\* C19: a transition that does not end in cancelled or failed (pending ->
\* processing, processing -> completed) leaves every stock row unchanged: no
\* step of its handler writes a stock row in its session, and its commit
\* leaves the stock as it was.
C19_OtherTransitionsKeepStock ==
    [][\A p \in Procs :
         (/\ pc[p] \in {"u_flush", "u_restore", "u_commit"}
          /\ pc'[p] # pc[p]
          /\ req[p].status \notin {"cancelled", "failed"})
         => /\ stock' = stock
            /\ \A k \in StockKeys : txn[p].stock[k] = NoWrite /\ txn'[p].stock[k] = NoWrite]_vars

\* Order 1 went pending -> processing -> completed and the stock is the initial one.
C19_Witness ==
    /\ orders[1].status = "completed"
    /\ res = Success("update")
    /\ stock = InitStock

\* The session id begins with the characters of prefix.
HasPrefix(sid, prefix) ==
    /\ Len(sid) >= Len(prefix)
    /\ \A i \in 1..Len(prefix) : sid[i] = prefix[i]

\* C20: the rendered sequence is exactly: the container token ("1 cup" for a
\* session id starting with "smoothie-", "1 bowl" for "salad-", the generic
\* container otherwise, no session id included); one dispense token per
\* ingredient line in line order; one add token per add-on line in line
\* order; "move to next chamber" if and only if there is at least one
\* ingredient or add-on line; one token per supplied liquid in order, or the
\* single token "add finishing touches" if none was supplied.
C20_RenderTokenSequence ==
    [][\A p \in Procs :
         GenerateOrderString(p)
         => LET o == req[p].order
                l == req[p].liquids
                t == res'.process_steps
                ni == Len(o.order_items)
                na == Len(o.order_addons)
                mv == IF ni + na > 0 THEN 1 ELSE 0
                nl == Len(l)
            IN  /\ Len(t) = 1 + ni + na + mv + (IF nl = 0 THEN 1 ELSE nl)
                /\ t[1].kind = "container"
                /\ t[1].name = IF HasPrefix(o.session_id, SmoothiePrefix) THEN "1 cup"
                               ELSE IF HasPrefix(o.session_id, SaladPrefix) THEN "1 bowl"
                               ELSE "1 container"
                /\ \A n \in 1..ni :
                     /\ t[1 + n].kind = "dispense"
                     /\ o.order_items[n].ingredient_id \in Ingredients
                          => t[1 + n].name = IngredientName[o.order_items[n].ingredient_id]
                     /\ o.order_items[n].qty_ml > 0
                          => t[1 + n].amount = o.order_items[n].qty_ml /\ t[1 + n].unit = "ml"
                     /\ (o.order_items[n].qty_ml = 0 /\ o.order_items[n].grams_used > 0)
                          => t[1 + n].amount = o.order_items[n].grams_used /\ t[1 + n].unit = "g"
                /\ \A n \in 1..na :
                     /\ t[1 + ni + n].kind = "add"
                     /\ t[1 + ni + n].unit = "x"
                     /\ t[1 + ni + n].name = AddonName[o.order_addons[n].addon_id]
                /\ \A i \in 1..Len(t) : t[i] = MoveStep <=> (mv = 1 /\ i = 1 + ni + na + 1)
                /\ \A n \in 1..nl :
                     /\ t[1 + ni + na + mv + n].kind = "add"
                     /\ t[1 + ni + na + mv + n].name = l[n].liquid_name
                     /\ "qty" \in DOMAIN l[n] => t[1 + ni + na + mv + n].qty = l[n].qty
                /\ \A i \in 1..Len(t) : t[i] = FinishingStep <=> (nl = 0 /\ i = Len(t))]_vars

\* Scenario C: session "smoothie-abc", Banana 150 ml, ProteinPowder x1, no liquids.
C20_Witness ==
    /\ res.op = "render"
    /\ res.process_steps = << Step("container", "1 cup", 0, "", ""),
                              Step("dispense", "Banana", 150, "ml", ""),
                              Step("add", "ProteinPowder", 1, "x", ""),
                              MoveStep,
                              FinishingStep >>

\* C21: every validation or business-rule failure of CreateOrder and of
\* UpdateOrderStatus (recipe violation, unknown item, machine unavailable,
\* insufficient stock, illegal status transition) is answered with a
\* client-error status (4xx), and a server error (5xx) is answered only for a
\* storage failure.
C21_ClientErrorsAreClientErrors ==
    (res.op \in {"create", "update"} /\ ~res.ok)
    => /\ res.cause.type \in {"ValidationError", "BusinessRuleError", "InsufficientStockError"}
            => http_status(res) \in 400..499
       /\ http_status(res) \in 500..599 => res.cause.type = "DatabaseError"

C23_FirstInsufficientLine ==
    [][\A p \in Procs :
         (pc[p] = "c_select" /\ pc'[p] = "idle")
         => LET l == DeductLines(req[p])[loc[p].line]
            IN  /\ res'.op = "create" /\ ~res'.ok
                /\ res'.cause.type = "InsufficientStockError"
                /\ res'.cause.item = l.key[2]
                /\ stock' = stock /\ orders' = orders /\ txn'[p] = EmptyTxn]_vars

\* C24: within a CreateOrder the steps come in the order validate -> deduct
\* -> persist -> render/publish: the session of a creation holds no write
\* before the validator has passed, it holds the order and line rows only
\* after every deduction has succeeded, and the instruction has been published
\* only with the rows written.
C24_CreateStepOrder ==
    \A p \in Procs :
      LET creating == pc[p] \in {"c_dao", "c_select", "c_update", "c_publish", "c_commit"}
          deducted == pc[p] \in {"c_publish", "c_commit"}
      IN  /\ pc[p] = "c_dao" => txn[p] = EmptyTxn
          /\ (creating /\ txn[p].inserted # <<>>) => deducted
          /\ pc[p] = "c_commit" => txn[p].inserted # <<>>

\* C25: the Order Validator changes no state: a run of it, passing or
\* failing, leaves every stock row and order as it was and writes nothing in
\* its session, and run again on the state it leaves it gives the same verdict.
C25_ValidatorReadOnly ==
    [][\A p \in Procs, r \in CreateRequests :
         CValidate(p, r)
         => /\ stock' = stock /\ orders' = orders
            /\ txn' = txn /\ txn'[p] = EmptyTxn
            /\ validate_order_request(orders', r) = validate_order_request(orders, r)
            /\ (pc'[p] = "c_dao") <=> (validate_order_request(orders, r) = OK)]_vars

\* The validator has passed for two requests on the same state, and neither
\* session holds a write.
C25_Witness ==
    /\ \A p \in Procs : pc[p] = "c_dao" /\ txn[p] = EmptyTxn

RECURSIVE CompensatedSum(_, _, _)
CompensatedSum(os, k, n) ==
    IF n = 0 THEN 0
    ELSE CompensatedSum(os, k, n - 1)
         + (IF /\ os[n].status \in {"cancelled", "failed"}
               /\ InitOrders[n].status \notin {"cancelled", "failed"}
            THEN OrderLineSum(os[n], k) ELSE 0)

\* C28: concurrent UpdateOrderStatus requests for one order have the outcome
\* of some serial order of them: the lines of an order are restored to stock
\* at most once, and exactly when its committed status is cancelled or failed.
\* (Stated on the rows no admin operation writes; no creation commits.)
C28_ConcurrentUpdatesSerial ==
    \A k \in StockKeys \ AdminRows :
       RowExists(k) =>
         stock[k] = InitStock[k] + CompensatedSum(orders, k, Len(InitOrders))

RECURSIVE ActiveSum(_, _, _)
ActiveSum(os, k, n) ==
    IF n = 0 THEN 0
    ELSE ActiveSum(os, k, n - 1)
         + (IF os[n].status \in {"pending", "processing", "completed"}
            THEN OrderLineSum(os[n], k) ELSE 0)

\* C30: with sequential CreateOrder and UpdateOrderStatus calls (orders
\* created as pending or processing, no admin stock edit), for every stock
\* row the initial quantity minus the current quantity is the sum of the line
\* amounts for that row over the machine's orders in status pending,
\* processing or completed (over the orders stored since the initial state,
\* less what the initially stored orders held).
C30_LedgerAccounting ==
    \A k \in StockKeys :
       RowExists(k) =>
         InitStock[k] - stock[k]
           = ActiveSum(orders, k, Len(orders)) - ActiveSum(InitOrders, k, Len(InitOrders))

\* An order was created, deducted, and then cancelled or failed; the stored
\* order 1 has gone through its lifecycle as well.
C30_Witness ==
    /\ Len(orders) = 3
    /\ orders[3].status \in {"cancelled", "failed"}
    /\ orders[1].status = "completed"
    /\ \A p \in Procs : pc[p] = "idle"

\* C31: a machine is released when its in-flight order ends: once no
\* committed order of an active machine is pending or processing, a
\* CreateOrder on it is not refused by admission control, by the service's
\* check or by the DAO's; its orders in a terminal status never block it.
C31_MachineReleased ==
    [][\A p \in Procs :
         /\ \A r \in CreateRequests :
              (/\ r.machine_id \in Machines
               /\ MachineStatus[r.machine_id] = "active"
               /\ ~HasInFlight(orders, r.machine_id)
               /\ CValidate(p, r))
              => \/ pc'[p] = "c_dao"
                 \/ (res'.op = "create" /\ ~res'.ok /\ ~MachineUnavailable(res'.cause))
         /\ (/\ pc[p] = "c_dao"
             /\ ~HasInFlight(orders, req[p].machine_id)
             /\ CDaoCreate(p))
              => ~MachineUnavailable(res'.cause)]_vars

\* The only in-flight order of M1 has ended, M1 holds terminal orders, and a
\* creation on M1 has passed the admission check.
C31_Witness ==
    /\ orders[1].status \in {"completed", "failed", "cancelled"}
    /\ \E i \in 1..Len(orders) : orders[i].machine_id = "M1"
    /\ ~HasInFlight(orders, "M1")
    /\ \E p \in Procs : pc[p] = "c_dao" /\ req[p].machine_id = "M1"

\* C32: a bulk restock that runs concurrently with a deduction or a
\* restoration on the same row loses neither update: its commit leaves the
\* row at the committed quantity, with what the other requests deducted and
\* restored since it began, plus the restocked quantity.
C32_RestockLosesNoUpdate ==
    [][\A p \in Procs :
         BCommit(p) => stock'[req[p].key] = stock[req[p].key] + req[p].qty_to_add]_vars

\* The stock rows of machine m for the items named by the ingredient lines
\* ings and the add-on lines ads.
RowsOf(m, ings, ads) ==
    {<<m, ings[n].ingredient_id>> : n \in 1..Len(ings)} \cup {<<m, ads[n].addon_id>> : n \in 1..Len(ads)}

\* C33: CreateOrder on machine M and UpdateOrderStatus on an order of M change
\* only stock rows of M for items on the order: every step of such a request
\* leaves the committed rows of every other machine, and the rows of M for
\* other items, unchanged, and writes none of them in its session.
C33_PerMachineIsolation ==
    [][\A p \in Procs :
         (/\ pc[p] \in {"c_dao", "c_select", "c_update", "c_publish", "c_commit",
                        "u_flush", "u_restore", "u_commit"}
          /\ pc'[p] # pc[p])
         => LET own == IF req[p].op = "create"
                       THEN RowsOf(req[p].machine_id, req[p].ingredients, req[p].addons)
                       ELSE RowsOf(orders[req[p].order_id].machine_id,
                                   orders[req[p].order_id].order_items,
                                   orders[req[p].order_id].order_addons)
            IN  \A k \in StockKeys \ own :
                  /\ stock'[k] = stock[k]
                  /\ txn[p].stock[k] = NoWrite
                  /\ txn'[p].stock[k] = NoWrite]_vars

\* An order was created on M1, order 1 of M1 was cancelled or failed and its
\* add-on restored, and the rows of M2 and the row (M1, I2) are as they were.
C33_Witness ==
    /\ Len(orders) = 3
    /\ orders[1].status \in {"cancelled", "failed"}
    /\ stock[<<"M1", "A1">>] > InitStock[<<"M1", "A1">>]
    /\ stock[<<"M1", "I2">>] = InitStock[<<"M1", "I2">>]
    /\ stock[<<"M2", "I1">>] = InitStock[<<"M2", "I1">>]
    /\ \A p \in Procs : pc[p] = "idle"

\* C34: line items are immutable: no step of any request, and so no
\* UpdateOrderStatus call, successful or failed, to any status, adds, removes
\* or changes a line of a stored order or moves the order to another
\* machine; a created order is stored with the lines of its request; and a
\* restoration adds to each row exactly what the stored lines hold against it.
C34_LinesImmutable ==
    [][/\ \A i \in 1..Len(orders) :
            /\ i <= Len(orders')
            /\ orders'[i].order_items = orders[i].order_items
            /\ orders'[i].order_addons = orders[i].order_addons
            /\ orders'[i].machine_id = orders[i].machine_id
       /\ \A p \in Procs :
            /\ CCommit(p)
                 => /\ Len(orders') = Len(orders) + 1
                    /\ orders'[Len(orders')].order_items = req[p].ingredients
                    /\ orders'[Len(orders')].order_addons = req[p].addons
            /\ (pc[p] = "u_restore" /\ URestore(p))
                 => \A k \in StockKeys :
                      RowExists(k) =>
                        SeenStock(p, k) + OrderLineSum(orders[req[p].order_id], k)
                          = IF txn'[p].stock[k] # NoWrite THEN txn'[p].stock[k] ELSE stock'[k]]_vars

\* A created order has gone processing -> failed and still has the lines it
\* was created with; the stored order 1 has moved on with its lines as well.
C34_Witness ==
    /\ Len(orders) = 3
    /\ orders[3].status = "failed"
    /\ orders[3].order_items # <<>>
    /\ orders[1].status # InitOrders[1].status
    /\ orders[1].order_items = InitOrders[1].order_items
    /\ orders[1].order_addons = InitOrders[1].order_addons

C36_RestoreAddsExactly ==
    [][\A p \in Procs :
         (pc[p] = "u_restore" /\ pc'[p] # pc[p])
         => /\ pc'[p] = "u_commit"
            /\ res' = NoRes
            /\ \A k \in StockKeys :
                 IF RowExists(k) /\ OrderLineSum(orders[req[p].order_id], k) > 0
                 THEN txn'[p].stock[k] = SeenStock(p, k) + OrderLineSum(orders[req[p].order_id], k)
                 ELSE txn'[p].stock[k] = txn[p].stock[k]]_vars

\* A restoration was committed on a row that already held the largest
\* quantity an admin operation sets.
C36_Witness ==
    /\ orders[1].status \in {"cancelled", "failed"}
    /\ stock[<<"M1", "I1">>] > MaxQty
    /\ res = Success("update")

C38_ClassifyAndLowStockFlag ==
    (res.op = "inventory" /\ res.item.reported)
    => LET q == res.item.qty_available
           th == res.item.low_stock_threshold
       IN  /\ res.item.by = "view"
              => res.item.stock_status = (IF q = 0 THEN "OUT_OF_STOCK"
                                          ELSE IF q <= th THEN "LOW_STOCK"
                                          ELSE "AVAILABLE")
           /\ res.item.by # "view"
              => res.item.is_low_stock = (q <= th)

====
